---- MODULE Spec2Model ----
(***************************************************************************)
(* A model of the API v2 layer of temba (temba/api/v2/views.py and         *)
(* temba/api/v2/serializers.py): the definitions export                    *)
(* (DefinitionsEndpoint.get) and the flow start admission                  *)
(* (FlowStartWriteSerializer, CreateAPIMixin.post).                        *)
(*                                                                         *)
(* The store is one variable per model class (Flow, Campaign, ...), each a *)
(* function from primary key to row.  UUIDs and primary keys are           *)
(* identified: a row's key is its UUID.  Python sets are TLA+ sets, so     *)
(* set.add / set.update are unions.                                        *)
(***************************************************************************)
EXTENDS Integers, FiniteSets, Sequences, Bags, TLC

\* ------------------------------------------------------------------ bounds
\* most sub-flow references in the store
MaxDeps == 3
\* most flow UUIDs in one export request
MaxRequested == 2
\* most campaign events in the store
MaxEvents == 2
\* most times the client sends its export request
MaxRuns == 2

\* ------------------------------------------------------------- the universe
None == "None"
\* request.user.get_org() of every request of the model, and another tenant
Org1 == "org1"
Org2 == "org2"

OwnFlows == {"fA", "fB", "fC"}
ForeignFlow == "fX"
\* a UUID that matches no row of any table
NoSuch == "zz"
OwnCampaign == "cK"
ForeignCampaign == "cX"

OwnContact == "k1"
ForeignContact == "kX"
OwnGroup == "g1"
ForeignGroup == "gX"

Range(s) == {s[i] : i \in DOMAIN s}

\* ------------------------------------------------------------------- state
VARIABLES
    \* the store
    Flow,            \* uuid -> [org, is_active, flows, groups]
    Campaign,        \* uuid -> [org]
    CampaignEvent,   \* set of [campaign, event_type, is_active, flow]
    Trigger,         \* id -> [org, flow]
    ContactGroup,    \* uuid -> [org, is_active]
    Contact,         \* uuid -> [org, is_active, urns]
    FlowStart,       \* id -> [flow, contacts, groups, restart_participants,
                     \*        status, is_active]
    async_calls,     \* the FlowStart ids async_start was called on, in order
    broker_up,       \* whether the task queue accepts async_start
    queue,           \* the FlowStart ids the task queue accepted
    list_response,   \* the response to the last GET on the flow starts
    store0,          \* history: the store before the first request
    \* DefinitionsEndpoint.get: the request and the locals of the handler
    pc,              \* "none" (no export is requested), "idle", "loop" (in
                     \* `for flow in flows`), "done"
    request,         \* the query parameters
    flow_uuids,
    campaign_uuids,
    depends,
    flows,           \* the working flow set
    campaigns,
    dependencies,    \* the accumulator passed through Flow.get_dependencies
    todo,            \* the flows `for flow in flows` has not yet reached
    response,
    runs,            \* how many times the export request was sent
    previous,        \* the response to the request the time before
    \* CreateAPIMixin.post on FlowStartsEndpoint, one request per client
    body,            \* client -> request.data
    ppc,             \* client -> "none" (the client sends nothing), "idle",
                     \* "valid", "saved", "started", "done"
    validated,       \* client -> serializer.validated_data
    output,          \* client -> the id serializer.save() returned
    post_response,   \* client -> the response of the POST
    \* ResthookSubscriberEndpoint: the tables and one POST per client
    Resthook,            \* slug -> [org, is_active]
    ResthookSubscriber,  \* id -> [resthook, target_url, is_active]
    hbody,               \* client -> request.data
    hpc,                 \* client -> "none", "idle", "valid", "done"
    hook_response,       \* client -> the response of the POST
    delete_response,     \* the response to the last DELETE
    subscriber_list,     \* the response to the last GET on the subscribers
    \* ListAPIMixin.list, one GET on a list endpoint
    query,               \* the endpoint, the format and request.query_params
    lpc,                 \* "none" (no list is requested), "idle", "done"
    query_result         \* what the GET came to

store == <<Flow, Campaign, CampaignEvent, Trigger, ContactGroup, Contact, FlowStart>>
locals == <<flow_uuids, campaign_uuids, depends, flows, campaigns, dependencies, todo>>
defs_vars == <<pc, request, locals, response, runs, previous>>
post_vars == <<body, ppc, validated, output, post_response>>
env_vars == <<async_calls, broker_up, store0, queue, list_response>>
hook_vars == <<Resthook, ResthookSubscriber, hbody, hpc, hook_response,
               delete_response, subscriber_list>>
list_vars == <<query, lpc, query_result>>
vars == <<store, defs_vars, post_vars, env_vars, hook_vars, list_vars>>

\* the tables as one value, for the operators that query them
DB == [Flow |-> Flow, Campaign |-> Campaign, CampaignEvent |-> CampaignEvent,
       Trigger |-> Trigger, ContactGroup |-> ContactGroup, Contact |-> Contact,
       FlowStart |-> FlowStart]

\* ------------------------------------------------------ request parameters
\* params.getlist(name): the values of a repeatable parameter
getlist(values) == values

\* temba.utils.splitting_getlist: every value of the parameter, split on commas.
\* A value of a deprecated parameter is the sequence of the UUIDs it joins.
splitting_getlist(values) == UNION {Range(v) : v \in values}

\* temba.utils.str_to_bool, on the values the model sends
str_to_bool(text) == text = "true"

\* params.get('dependencies', 'true')
DependenciesParam(req) == IF req.dependencies = None THEN "true" ELSE req.dependencies

\* 'flow_uuid' in params or 'campaign_uuid' in params
Deprecated(req) == req.flow_uuid # {} \/ req.campaign_uuid # {}

FlowUuids(req) ==
    IF Deprecated(req) THEN splitting_getlist(req.flow_uuid) ELSE getlist(req.flow)

CampaignUuids(req) ==
    IF Deprecated(req) THEN splitting_getlist(req.campaign_uuid) ELSE getlist(req.campaign)

\* ----------------------------------------------------------------- queries
\* faulty variant: the org is not part of the filter
FlowsFilterAnyOrg(db, uuids, org) ==
    {f \in DOMAIN db.Flow : f \in uuids}

\* Flow.objects.filter(uuid__in=flow_uuids, org=org)
FlowsFilter(db, uuids, org) ==
    {f \in DOMAIN db.Flow : f \in uuids /\ db.Flow[f].org = org}

\* Campaign.objects.filter(uuid__in=campaign_uuids, org=org)
CampaignsFilter(db, uuids, org) ==
    {c \in DOMAIN db.Campaign : c \in uuids /\ db.Campaign[c].org = org}

\* faulty variant: the events are not filtered by type and is_active
EventFlowsAnyEvent(db, campaign) ==
    {e.flow : e \in {x \in db.CampaignEvent : x.campaign = campaign /\ x.flow # None}}

\* campaign.events.filter(event_type=CampaignEvent.TYPE_FLOW, is_active=True)
\*     .exclude(flow=None), and the flow of each
EventFlows(db, campaign) ==
    {e.flow : e \in {x \in db.CampaignEvent :
                        /\ x.campaign = campaign
                        /\ x.event_type = "F"
                        /\ x.is_active
                        /\ x.flow # None}}

\* --------------------------------------------------- Flow.get_dependencies
RECURSIVE get_dependencies(_, _, _)
RECURSIVE visit_all(_, _, _)

\* flow.get_dependencies(dependencies=deps): the flow, its triggers and its
\* groups are merged into deps, then its sub-flows are traversed; a flow
\* already in deps.flows has been visited and is not traversed again.
get_dependencies(db, flow, deps) ==
    IF flow \in deps.flows
    THEN deps
    ELSE visit_all(db, db.Flow[flow].flows,
                   [deps EXCEPT
                      !.flows = @ \cup {flow},
                      !.triggers = @ \cup {t \in DOMAIN db.Trigger : db.Trigger[t].flow = flow},
                      !.groups = @ \cup db.Flow[flow].groups])

visit_all(db, subflows, deps) ==
    IF subflows = {}
    THEN deps
    ELSE LET f == CHOOSE x \in subflows : TRUE
         IN visit_all(db, subflows \ {f}, get_dependencies(db, f, deps))

\* org.export_definitions(link, flows=, campaigns=, triggers=)
export_definitions(fs, cs, ts) ==
    [version |-> 8, campaigns |-> cs, triggers |-> ts, flows |-> fs]

\* ------------------------------------------------ DefinitionsEndpoint.get
\* lines 1013-1016: the requested flows of the org
ResolveFlows(db, uuids, org) ==
    IF uuids # {} THEN FlowsFilter(db, uuids, org) ELSE {}

\* lines 1019-1021: the requested campaigns of the org
ResolveCampaigns(db, uuids, org) ==
    IF uuids # {} THEN CampaignsFilter(db, uuids, org) ELSE {}

\* lines 1023-1026: the flows of the events of the fetched campaigns
CampaignFlows(db, cs, d) ==
    IF d THEN UNION {EventFlows(db, c) : c \in cs} ELSE {}

\* line 1029
NewDependencies(cs) ==
    [flows |-> {}, campaigns |-> cs, triggers |-> {}, groups |-> {}]

\* faulty variant: the dependencies are collected whatever `depends` says
LoopBodyAlways(db, flow, d, deps) ==
    get_dependencies(db, flow, deps)

\* faulty variant: each flow starts from a new accumulator instead of the running one
LoopBodyFresh(db, flow, d, deps) ==
    IF d THEN get_dependencies(db, flow, NewDependencies(deps.campaigns)) ELSE deps

\* faulty variant: flow.get_dependencies() is called without the accumulator
LoopBodyNoArg(db, flow, d, deps) ==
    IF d THEN get_dependencies(db, flow, NewDependencies({})) ELSE deps

\* lines 1031-1032: the body of `for flow in flows`
LoopBody(db, flow, d, deps) ==
    IF d THEN get_dependencies(db, flow, deps) ELSE deps

\* faulty variant: the requested flows replace the collected ones
ToExportRequestedOnly(deps, fs) ==
    [flows |-> fs, campaigns |-> deps.campaigns, triggers |-> deps.triggers]

\* faulty variant: line 1040 is missing
ToExportDependenciesOnly(deps, fs) ==
    [flows |-> deps.flows, campaigns |-> deps.campaigns, triggers |-> deps.triggers]

\* lines 1035-1040: to_export, with the requested flows added to its flows
ToExport(deps, fs) ==
    [flows |-> deps.flows \cup fs, campaigns |-> deps.campaigns,
     triggers |-> deps.triggers]

\* faulty variant: a UUID that matches nothing ends the request with 404
GetOr404 ==
    /\ pc = "idle"
    /\ LET fu == FlowUuids(request)
           cu == CampaignUuids(request)
           d  == str_to_bool(DependenciesParam(request))
           cs == ResolveCampaigns(DB, cu, Org1)
           ws == ResolveFlows(DB, fu, Org1) \cup CampaignFlows(DB, cs, d)
       IN /\ flow_uuids' = fu
          /\ campaign_uuids' = cu
          /\ depends' = d
          /\ campaigns' = cs
          /\ flows' = ws
          /\ dependencies' = NewDependencies(cs)
          /\ todo' = ws
          /\ IF ResolveFlows(DB, fu, Org1) # fu \/ cs # cu
             THEN /\ pc' = "done"
                  /\ response' = [response EXCEPT !.status = 404]
             ELSE /\ pc' = "loop"
                  /\ UNCHANGED response
    /\ runs' = runs + 1
    /\ UNCHANGED <<hook_vars, list_vars, store, request, previous, post_vars, env_vars>>

\* faulty variant: the events whose flows are collected are deactivated
GetDeactivating ==
    /\ pc = "idle"
    /\ LET fu == FlowUuids(request)
           cu == CampaignUuids(request)
           d  == str_to_bool(DependenciesParam(request))
           cs == ResolveCampaigns(DB, cu, Org1)
           ws == ResolveFlows(DB, fu, Org1) \cup CampaignFlows(DB, cs, d)
       IN /\ flow_uuids' = fu
          /\ campaign_uuids' = cu
          /\ depends' = d
          /\ campaigns' = cs
          /\ flows' = ws
          /\ dependencies' = NewDependencies(cs)
          /\ todo' = ws
          /\ CampaignEvent' =
                {IF d /\ e.campaign \in cs /\ e.event_type = "F" /\ e.flow # None
                 THEN [e EXCEPT !.is_active = FALSE] ELSE e : e \in CampaignEvent}
    /\ pc' = "loop"
    /\ runs' = runs + 1
    /\ UNCHANGED <<hook_vars, list_vars, Flow, Campaign, Trigger, ContactGroup, Contact, FlowStart,
                   request, response, previous, post_vars, env_vars>>

\* lines 1001-1029: the parameters, the two queries, the accumulator
Get ==
    /\ pc = "idle"
    /\ LET fu == FlowUuids(request)
           cu == CampaignUuids(request)
           d  == str_to_bool(DependenciesParam(request))
           cs == ResolveCampaigns(DB, cu, Org1)
           ws == ResolveFlows(DB, fu, Org1) \cup CampaignFlows(DB, cs, d)
       IN /\ flow_uuids' = fu
          /\ campaign_uuids' = cu
          /\ depends' = d
          /\ campaigns' = cs
          /\ flows' = ws
          /\ dependencies' = NewDependencies(cs)
          /\ todo' = ws
    /\ pc' = "loop"
    /\ runs' = runs + 1
    /\ UNCHANGED <<hook_vars, list_vars, store, request, response, previous, post_vars, env_vars>>

\* lines 1030-1032: one iteration of `for flow in flows`, in the order the set
\* yields its members
LoopFlow ==
    /\ pc = "loop"
    /\ \E flow \in todo :
          /\ dependencies' = LoopBody(DB, flow, depends, dependencies)
          /\ todo' = todo \ {flow}
    /\ UNCHANGED <<hook_vars, list_vars, store, pc, request, flow_uuids, campaign_uuids, depends, flows,
                   campaigns, response, runs, previous, post_vars, env_vars>>

\* lines 1034-1044: the export of the accumulator and the requested flows.
\* to_export['flows'] is the set object dependencies['flows'], so the update
\* of line 1040 shows in both.
Finish ==
    /\ pc = "loop"
    /\ todo = {}
    /\ LET to_export == ToExport(dependencies, flows)
       IN /\ response' = [status |-> 200,
                          export |-> export_definitions(to_export.flows,
                                                        to_export.campaigns,
                                                        to_export.triggers)]
          /\ dependencies' = [dependencies EXCEPT !.flows = to_export.flows]
    /\ pc' = "done"
    /\ UNCHANGED <<hook_vars, list_vars, store, request, flow_uuids, campaign_uuids, depends, flows,
                   campaigns, todo, runs, previous, post_vars, env_vars>>

\* the client sends the same request again; every request has its own locals
Repeat ==
    /\ pc = "done"
    /\ runs < MaxRuns
    /\ previous' = response
    /\ pc' = "idle"
    /\ UNCHANGED <<hook_vars, list_vars, store, request, locals, response, runs, post_vars, env_vars>>

\* the whole handler as a function of the store and the request, the flows
\* taken in the order CHOOSE yields them
RECURSIVE LoopAll(_, _, _, _)
LoopAll(db, fs, d, deps) ==
    IF fs = {}
    THEN deps
    ELSE LET f == CHOOSE x \in fs : TRUE
         IN LoopAll(db, fs \ {f}, d, LoopBody(db, f, d, deps))

DefinitionsGet(db, req, org) ==
    LET d  == str_to_bool(DependenciesParam(req))
        cs == ResolveCampaigns(db, CampaignUuids(req), org)
        ws == ResolveFlows(db, FlowUuids(req), org) \cup CampaignFlows(db, cs, d)
        to_export == ToExport(LoopAll(db, ws, d, NewDependencies(cs)), ws)
    IN [status |-> 200,
        export |-> export_definitions(to_export.flows, to_export.campaigns,
                                      to_export.triggers)]

\* --------------------------------------------------------------- URN, Contact
\* temba.contacts.models.URN.validate: scheme:path
URN_validate(urn) == urn \in {"tel:1", "tel:2", "Tel:2"}

\* temba.contacts.models.URN.normalize: the scheme in lower case
URN_normalize(urn) == IF urn = "Tel:2" THEN "tel:2" ELSE urn

\* the key of the contact created for a URN
NewContactId(urn) == IF urn = "tel:1" THEN "n1" ELSE "n2"

\* Contact.get_or_create(org, user, urns=[urn]): the contact of the org that
\* has the URN, or a new contact of the org with it
get_or_create(db, org, urn) ==
    LET have == {k \in DOMAIN db.Contact :
                    db.Contact[k].org = org /\ urn \in db.Contact[k].urns}
    IN IF have # {}
       THEN [db |-> db, contact |-> CHOOSE k \in have : TRUE]
       ELSE LET k == NewContactId(urn)
            IN [db |-> [db EXCEPT !.Contact =
                          [x \in DOMAIN db.Contact \cup {k} |->
                              IF x = k
                              THEN [org |-> org, is_active |-> TRUE, urns |-> {urn}]
                              ELSE db.Contact[x]]],
                contact |-> k]

\* ------------------------------------------------- FlowStartWriteSerializer
FieldNames == {"flow", "contacts", "groups", "urns", "restart_participants"}

\* faulty variant: a deleted flow is accepted
validate_flowAnyState(db, org, value) ==
    LET found == {f \in DOMAIN db.Flow : db.Flow[f].org = org /\ f = value}
    IN IF found = {}
       THEN [error |-> "No flow found with UUID", value |-> None]
       ELSE [error |-> None, value |-> value]

\* validate_flow, lines 406-410
validate_flow(db, org, value) ==
    LET found == {f \in DOMAIN db.Flow :
                     db.Flow[f].org = org /\ db.Flow[f].is_active /\ f = value}
    IN IF found = {}
       THEN [error |-> "No flow found with UUID", value |-> None]
       ELSE [error |-> None, value |-> value]

\* faulty variant: the contacts that do not resolve are left out
validate_contactsPartial(db, org, value) ==
    [error |-> None,
     value |-> {k \in DOMAIN db.Contact :
                   db.Contact[k].org = org /\ db.Contact[k].is_active /\ k \in value}]

\* validate_contacts, lines 412-420
validate_contacts(db, org, value) ==
    LET found == {k \in DOMAIN db.Contact :
                     db.Contact[k].org = org /\ db.Contact[k].is_active /\ k \in value}
    IN IF found # value
       THEN [error |-> "No contact found with UUID", value |-> {}]
       ELSE [error |-> None, value |-> found]

\* faulty variant: the groups that do not resolve are left out
validate_groupsPartial(db, org, value) ==
    [error |-> None,
     value |-> {g \in DOMAIN db.ContactGroup :
                   /\ db.ContactGroup[g].org = org
                   /\ db.ContactGroup[g].is_active
                   /\ g \in value}]

\* validate_groups, lines 422-430
validate_groups(db, org, value) ==
    LET found == {g \in DOMAIN db.ContactGroup :
                     /\ db.ContactGroup[g].org = org
                     /\ db.ContactGroup[g].is_active
                     /\ g \in value}
    IN IF found # value
       THEN [error |-> "No group found with UUID", value |-> {}]
       ELSE [error |-> None, value |-> found]

\* faulty variant: the loop returns after its first URN
validate_urnsFirstOnly(db, org, value) ==
    IF value = {}
    THEN [db |-> db, value |-> {}]
    ELSE LET got == get_or_create(db, org, CHOOSE u \in value : TRUE)
         IN [db |-> got.db, value |-> {got.contact}]

\* validate_urns, lines 432-438: one get_or_create for each URN
RECURSIVE validate_urns(_, _, _)
validate_urns(db, org, value) ==
    IF value = {}
    THEN [db |-> db, value |-> {}]
    ELSE LET urn  == CHOOSE u \in value : TRUE
             got  == get_or_create(db, org, urn)
             rest == validate_urns(got.db, org, value \ {urn})
         IN [db |-> rest.db, value |-> rest.value \cup {got.contact}]

\* faulty variant: the items that are no URN are left out
urns_to_internal_valueLenient(value) ==
    [error |-> None, value |-> {URN_normalize(u) : u \in {x \in value : URN_validate(x)}}]

\* URNListField, lines 60-72: every item is validated and normalized before
\* validate_urns is called; the first invalid item fails the field
urns_to_internal_value(value) ==
    IF \E u \in value : ~URN_validate(u)
    THEN [error |-> "Invalid URN", value |-> {}]
    ELSE [error |-> None, value |-> {URN_normalize(u) : u \in value}]

NoValidated == [fields |-> {}, flow |-> None, contacts |-> {}, groups |-> {}, urns |-> {}]

\* faulty variant: no audience is asked for
validateAnyAudience(data) == None

\* validate, lines 440-446
validate(data) ==
    IF data.groups \cup data.contacts \cup data.urns = {}
    THEN "Must specify at least one group, contact or URN"
    ELSE None

\* faulty variant: validation stops at the first field that fails
is_validFirstError(db, data, org) ==
    IF ~data.is_dict
    THEN [db |-> db, validated |-> NoValidated,
          errors |-> {<<"non_field_errors", "Request body should be a single JSON object">>}]
    ELSE
    LET f == IF "flow" \in data.fields
             THEN validate_flow(db, org, data.flow)
             ELSE [error |-> "This field is required.", value |-> None]
        c == IF "contacts" \in data.fields
             THEN validate_contacts(db, org, data.contacts)
             ELSE [error |-> None, value |-> {}]
        g == IF "groups" \in data.fields
             THEN validate_groups(db, org, data.groups)
             ELSE [error |-> None, value |-> {}]
        u0 == IF "urns" \in data.fields
              THEN urns_to_internal_value(data.urns)
              ELSE [error |-> None, value |-> {}]
        u == IF u0.error = None
             THEN validate_urns(db, org, u0.value)
             ELSE [db |-> db, value |-> {}]
        data1 == [fields |-> data.fields \cap {"flow", "contacts", "groups", "urns"},
                  flow |-> f.value, contacts |-> c.value, groups |-> g.value,
                  urns |-> u.value]
    IN IF f.error # None
       THEN [db |-> db, validated |-> NoValidated, errors |-> {<<"flow", f.error>>}]
       ELSE IF c.error # None
       THEN [db |-> db, validated |-> NoValidated, errors |-> {<<"contacts", c.error>>}]
       ELSE IF g.error # None
       THEN [db |-> db, validated |-> NoValidated, errors |-> {<<"groups", g.error>>}]
       ELSE IF u0.error # None
       THEN [db |-> db, validated |-> NoValidated, errors |-> {<<"urns", u0.error>>}]
       ELSE IF validate(data1) # None
       THEN [db |-> u.db, validated |-> NoValidated,
             errors |-> {<<"non_field_errors", validate(data1)>>}]
       ELSE [db |-> u.db, validated |-> data1, errors |-> {}]

\* serializer.is_valid(): WriteSerializer.run_validation (lines 49-53), then
\* every declared field in order (its own validation, then validate_<field>),
\* the errors of all fields collected, then validate() if no field failed.
\* The contacts validate_urns creates are in the store whatever the outcome.
is_valid(db, data, org) ==
    IF ~data.is_dict
    THEN [db |-> db, validated |-> NoValidated,
          errors |-> {<<"non_field_errors", "Request body should be a single JSON object">>}]
    ELSE
    LET f == IF "flow" \in data.fields
             THEN validate_flow(db, org, data.flow)
             ELSE [error |-> "This field is required.", value |-> None]
        c == IF "contacts" \in data.fields
             THEN validate_contacts(db, org, data.contacts)
             ELSE [error |-> None, value |-> {}]
        g == IF "groups" \in data.fields
             THEN validate_groups(db, org, data.groups)
             ELSE [error |-> None, value |-> {}]
        u0 == IF "urns" \in data.fields
              THEN urns_to_internal_value(data.urns)
              ELSE [error |-> None, value |-> {}]
        u == IF u0.error = None
             THEN validate_urns(db, org, u0.value)
             ELSE [db |-> db, value |-> {}]
        field_errors ==
            {e \in {<<"flow", f.error>>, <<"contacts", c.error>>,
                    <<"groups", g.error>>, <<"urns", u0.error>>} : e[2] # None}
        data1 == [fields |-> data.fields \cap {"flow", "contacts", "groups", "urns"},
                  flow |-> f.value, contacts |-> c.value, groups |-> g.value,
                  urns |-> u.value]
    IN IF field_errors # {}
       THEN [db |-> u.db, validated |-> NoValidated, errors |-> field_errors]
       ELSE IF validate(data1) # None
       THEN [db |-> u.db, validated |-> NoValidated,
             errors |-> {<<"non_field_errors", validate(data1)>>}]
       ELSE [db |-> u.db, validated |-> data1, errors |-> {}]

\* list + list, line 452: a member of both lists is in the result twice
ListPlus(a, b) == SetToBag(a) (+) SetToBag(b)

\* faulty variant: a pending start of the same flow and audience is reused
FlowStart_createOrReuse(db, flow, restart_participants, contacts, groups) ==
    LET same == {i \in DOMAIN db.FlowStart :
                    /\ db.FlowStart[i].flow = flow
                    /\ db.FlowStart[i].contacts = BagToSet(contacts)
                    /\ db.FlowStart[i].groups = groups
                    /\ db.FlowStart[i].status = "P"}
        id == Cardinality(DOMAIN db.FlowStart) + 1
        row == [flow |-> flow, contacts |-> BagToSet(contacts), groups |-> groups,
                restart_participants |-> restart_participants, status |-> "P",
                is_active |-> TRUE]
    IN IF same # {}
       THEN [db |-> db, id |-> CHOOSE i \in same : TRUE]
       ELSE [db |-> [db EXCEPT !.FlowStart =
                       [x \in DOMAIN db.FlowStart \cup {id} |->
                           IF x = id THEN row ELSE db.FlowStart[x]]],
             id |-> id]

\* FlowStart.create(flow, user, restart_participants=, contacts=, groups=):
\* the contacts of the list are added to the relation of the new start, which
\* holds a contact once
FlowStart_create(db, flow, restart_participants, contacts, groups) ==
    LET id == Cardinality(DOMAIN db.FlowStart) + 1
        row == [flow |-> flow, contacts |-> BagToSet(contacts), groups |-> groups,
                restart_participants |-> restart_participants, status |-> "P",
                is_active |-> TRUE]
    IN [db |-> [db EXCEPT !.FlowStart =
                  [x \in DOMAIN db.FlowStart \cup {id} |->
                      IF x = id THEN row ELSE db.FlowStart[x]]],
        id |-> id]

\* faulty variant: the start is created a second time
saveTwice(db, data) ==
    LET once == FlowStart_create(db, data.flow, TRUE, ListPlus(data.contacts, data.urns),
                                 data.groups)
    IN FlowStart_create(once.db, data.flow, TRUE, ListPlus(data.contacts, data.urns),
                        data.groups)

\* faulty variant: a pending start of the same flow and audience is returned
saveOrReuse(db, data) ==
    FlowStart_createOrReuse(db, data.flow, TRUE, ListPlus(data.contacts, data.urns),
                            data.groups)

\* faulty variant: the contacts of the URNs are left out of the start
saveContactsOnly(db, data) ==
    FlowStart_create(db, data.flow, TRUE, SetToBag(data.contacts), data.groups)

\* save, lines 448-455.  restart_participants is no declared field of the
\* serializer, so validated_data never holds it.
save(db, data) ==
    FlowStart_create(db, data.flow,
                     IF "restart_participants" \in data.fields
                     THEN data.restart_participants ELSE TRUE,
                     ListPlus(data.contacts, data.urns), data.groups)

\* FlowStartReadSerializer, lines 364-397
STATUSES(status) ==
    CASE status = "P" -> "pending"
      [] status = "S" -> "starting"
      [] status = "C" -> "complete"
      [] status = "F" -> "failed"

NoData == [id |-> 0, flow |-> None, status |-> None, groups |-> {}, contacts |-> {},
           restart_participants |-> FALSE]

FlowStartRead(db, id, status) ==
    [id |-> id, flow |-> db.FlowStart[id].flow, status |-> STATUSES(status),
     groups |-> db.FlowStart[id].groups, contacts |-> db.FlowStart[id].contacts,
     restart_participants |-> db.FlowStart[id].restart_participants]

NoResponse == [status |-> 0, errors |-> {}, data |-> NoData]

NoList == [status |-> 0, id |-> 0, results |-> {}]

\* ------------------------------------- CreateAPIMixin.post, lines 283-292
Clients == {"p1", "p2"}

SetStore(db) ==
    /\ Flow' = db.Flow
    /\ Campaign' = db.Campaign
    /\ CampaignEvent' = db.CampaignEvent
    /\ Trigger' = db.Trigger
    /\ ContactGroup' = db.ContactGroup
    /\ Contact' = db.Contact
    /\ FlowStart' = db.FlowStart

\* line 287, and line 292 when the serializer has errors
PostValidate(c) ==
    /\ ppc[c] = "idle"
    /\ LET r == is_valid(DB, body[c], Org1)
       IN /\ SetStore(r.db)
          /\ IF r.errors # {}
             THEN /\ post_response' = [post_response EXCEPT ![c] =
                        [status |-> 400, errors |-> r.errors, data |-> NoData]]
                  /\ ppc' = [ppc EXCEPT ![c] = "done"]
                  /\ UNCHANGED validated
             ELSE /\ validated' = [validated EXCEPT ![c] = r.validated]
                  /\ ppc' = [ppc EXCEPT ![c] = "valid"]
                  /\ UNCHANGED post_response
    /\ UNCHANGED <<hook_vars, list_vars, defs_vars, env_vars, body, output>>

\* faulty variant: the new row is not yet in the store when save() returns
PostSaveUncommitted(c) ==
    /\ ppc[c] = "valid"
    /\ output' = [output EXCEPT ![c] = [id |-> save(DB, validated[c]).id,
                                        status |-> "P"]]
    /\ ppc' = [ppc EXCEPT ![c] = "saved"]
    /\ UNCHANGED <<hook_vars, list_vars, store, defs_vars, env_vars, body, validated, post_response>>

\* line 288: output = serializer.save()
PostSave(c) ==
    /\ ppc[c] = "valid"
    /\ LET r == save(DB, validated[c])
       IN /\ SetStore(r.db)
          /\ output' = [output EXCEPT ![c] = [id |-> r.id, status |-> "P"]]
    /\ ppc' = [ppc EXCEPT ![c] = "saved"]
    /\ UNCHANGED <<hook_vars, list_vars, defs_vars, env_vars, body, validated, post_response>>

\* faulty variant: the refusal of the task queue is swallowed
PostAsyncSilent(c) ==
    /\ ppc[c] = "saved"
    /\ async_calls' = Append(async_calls, output[c].id)
    /\ queue' = IF broker_up THEN queue \cup {output[c].id} ELSE queue
    /\ ppc' = [ppc EXCEPT ![c] = "started"]
    /\ UNCHANGED <<hook_vars, list_vars, store, defs_vars, broker_up, store0, list_response, body,
                   validated, output, post_response>>

\* line 289 and FlowStartsEndpoint.post_save, lines 2120-2122: async_start
\* is called on the saved start and hands it to the task queue; when the
\* queue refuses, the exception leaves post(), which catches nothing, and the
\* request ends with a server error
PostAsync(c) ==
    /\ ppc[c] = "saved"
    /\ async_calls' = Append(async_calls, output[c].id)
    /\ IF broker_up
       THEN /\ queue' = queue \cup {output[c].id}
            /\ ppc' = [ppc EXCEPT ![c] = "started"]
            /\ UNCHANGED post_response
       ELSE /\ post_response' = [post_response EXCEPT ![c] =
                  [status |-> 500, errors |-> {}, data |-> NoData]]
            /\ ppc' = [ppc EXCEPT ![c] = "done"]
            /\ UNCHANGED queue
    /\ UNCHANGED <<hook_vars, list_vars, store, defs_vars, broker_up, store0, list_response, body,
                   validated, output>>

\* faulty variant: the start is read again from the store before it is rendered
PostRenderFresh(c) ==
    /\ ppc[c] = "started"
    /\ post_response' = [post_response EXCEPT ![c] =
          [status |-> 201, errors |-> {},
           data |-> FlowStartRead(DB, output[c].id, FlowStart[output[c].id].status)]]
    /\ ppc' = [ppc EXCEPT ![c] = "done"]
    /\ UNCHANGED <<hook_vars, list_vars, store, defs_vars, env_vars, body, validated, output>>

\* line 290 and render_write_response, lines 294-296
PostRender(c) ==
    /\ ppc[c] = "started"
    /\ post_response' = [post_response EXCEPT ![c] =
          [status |-> 201, errors |-> {},
           data |-> FlowStartRead(DB, output[c].id, output[c].status)]]
    /\ ppc' = [ppc EXCEPT ![c] = "done"]
    /\ UNCHANGED <<hook_vars, list_vars, store, defs_vars, env_vars, body, validated, output>>

\* the whole POST as a function of the store, the body and the task queue
PostResult(db, data, org, up) ==
    LET v == is_valid(db, data, org)
    IN IF v.errors # {}
       THEN [db |-> v.db, calls |-> <<>>,
             response |-> [status |-> 400, errors |-> v.errors, data |-> NoData]]
       ELSE LET s == save(v.db, v.validated)
            IN IF up
               THEN [db |-> s.db, calls |-> <<s.id>>,
                     response |-> [status |-> 201, errors |-> {},
                                   data |-> FlowStartRead(s.db, s.id, "P")]]
               ELSE [db |-> s.db, calls |-> <<s.id>>,
                     response |-> [status |-> 500, errors |-> {}, data |-> NoData]]

\* ------------------------------- FlowStartsEndpoint as a list, lines 2100-2118
\* get_queryset and filter_queryset: the active starts of the flows of the org,
\* the one with the id of the request when the request has an id
StartsQueryset(db, org, start_id) ==
    {i \in DOMAIN db.FlowStart :
        /\ db.Flow[db.FlowStart[i].flow].org = org
        /\ db.FlowStart[i].is_active
        /\ start_id # 0 => i = start_id}

\* ListAPIMixin.list, lines 209-216, with FlowStartReadSerializer
StartsList(db, org, start_id) ==
    [status |-> 200, id |-> start_id,
     results |-> {FlowStartRead(db, i, db.FlowStart[i].status) :
                     i \in StartsQueryset(db, org, start_id)}]

\* the ids a client asks for: none, or the id of a response it has received
PolledIds == {0} \cup {post_response[c].data.id : c \in Clients}

\* faulty variant: the list marks the starts it returns as starting
ListStartsTouching ==
    /\ \E start_id \in PolledIds :
          /\ list_response' = StartsList(DB, Org1, start_id)
          /\ FlowStart' = [i \in DOMAIN FlowStart |->
                              IF i \in StartsQueryset(DB, Org1, start_id)
                              THEN [FlowStart[i] EXCEPT !.status = "S"]
                              ELSE FlowStart[i]]
    /\ list_response' # list_response
    /\ UNCHANGED <<hook_vars, list_vars, Flow, Campaign, CampaignEvent, Trigger, ContactGroup, Contact,
                   defs_vars, post_vars, async_calls, broker_up, store0, queue>>

\* GET /api/v2/flow_starts.json?id=
ListStarts ==
    /\ \E start_id \in PolledIds :
          list_response' = StartsList(DB, Org1, start_id)
    /\ list_response' # list_response
    /\ UNCHANGED <<hook_vars, list_vars, store, defs_vars, post_vars, async_calls, broker_up, store0, queue>>

\* ------------------------------------------------------ the task queue, worker
\* the task queue becomes unreachable, or reachable again
BrokerChange ==
    /\ broker_up' = ~broker_up
    /\ UNCHANGED <<hook_vars, list_vars, store, defs_vars, post_vars, async_calls, store0, queue,
                   list_response>>

\* the worker takes a start the queue holds: pending -> starting
WorkerStart(i) ==
    /\ i \in queue
    /\ i \in DOMAIN FlowStart
    /\ FlowStart[i].status = "P"
    /\ FlowStart' = [FlowStart EXCEPT ![i].status = "S"]
    /\ UNCHANGED <<hook_vars, list_vars, Flow, Campaign, CampaignEvent, Trigger, ContactGroup, Contact,
                   defs_vars, post_vars, env_vars>>

\* the worker ends the enrollment: starting -> complete | failed
WorkerFinish(i) ==
    /\ i \in DOMAIN FlowStart
    /\ FlowStart[i].status = "S"
    /\ \E st \in {"C", "F"} : FlowStart' = [FlowStart EXCEPT ![i].status = st]
    /\ UNCHANGED <<hook_vars, list_vars, Flow, Campaign, CampaignEvent, Trigger, ContactGroup, Contact,
                   defs_vars, post_vars, env_vars>>

Worker == \E i \in DOMAIN FlowStart : WorkerStart(i) \/ WorkerFinish(i)

\* ------------- ResthookSubscriberWriteSerializer, serializers.py 571-602
OwnHook == "new-report"
InactiveHook == "old-report"
ForeignHook == "their-report"

\* what SlugField and URLField let through, among the values of the model
Slugs == {OwnHook, InactiveHook, ForeignHook, NoSuch}
URLs == {"http://a.io/1", "http://a.io/2"}

HookFieldNames == {"resthook", "target_url"}

\* Resthook.objects.filter(is_active=True, org=org, slug=slug).first()
get_resthook(rh, org, slug) ==
    IF slug \in DOMAIN rh /\ rh[slug].is_active /\ rh[slug].org = org
    THEN slug
    ELSE None

\* the error of the field `resthook`, None when there is none: the field is
\* required, a SlugField, and validate_resthook looks the slug up
validate_resthook(rh, data, org) ==
    IF "resthook" \notin data.fields THEN "This field is required."
    ELSE IF data.resthook \notin Slugs
    THEN "Enter a valid slug consisting of letters, numbers, underscores or hyphens."
    ELSE IF get_resthook(rh, org, data.resthook) = None
    THEN "No resthook with slug: " \o data.resthook
    ELSE None

\* the error of the field `target_url`, a required URLField
validate_target_url(data) ==
    IF "target_url" \notin data.fields THEN "This field is required."
    ELSE IF data.target_url \notin URLs THEN "Enter a valid URL."
    ELSE None

\* validate: the combination must not exist among the active subscribers
hook_validate(rh, subs, data, org) ==
    IF \E i \in DOMAIN subs :
          /\ subs[i].resthook = get_resthook(rh, org, data.resthook)
          /\ subs[i].target_url = data.target_url
          /\ subs[i].is_active
    THEN "URL is already subscribed to this event."
    ELSE None

\* faulty variant: a body that is no object is taken for one
hook_is_validAnyBody(rh, subs, data, org) ==
    LET field_errors ==
            {<<"resthook", validate_resthook(rh, data, org)>>,
             <<"target_url", validate_target_url(data)>>}
            \ (HookFieldNames \X {None})
    IN IF field_errors # {} THEN field_errors
       ELSE IF hook_validate(rh, subs, data, org) # None
       THEN {<<"non_field_errors", hook_validate(rh, subs, data, org)>>}
       ELSE {}

\* serializer.is_valid(): serializer.errors, empty when the data is valid.
\* run_validation refuses a body that is no object; the fields are validated
\* each, and validate() runs when no field failed
hook_is_valid(rh, subs, data, org) ==
    IF ~data.is_dict
    THEN {<<"non_field_errors", "Request body should be a single JSON object">>}
    ELSE LET field_errors ==
                 {<<"resthook", validate_resthook(rh, data, org)>>,
                  <<"target_url", validate_target_url(data)>>}
                 \ (HookFieldNames \X {None})
         IN IF field_errors # {} THEN field_errors
            ELSE IF hook_validate(rh, subs, data, org) # None
            THEN {<<"non_field_errors", hook_validate(rh, subs, data, org)>>}
            ELSE {}

\* Resthook.add_subscriber: a new, active subscriber of the resthook
add_subscriber(subs, resthook, target_url) ==
    Append(subs, [resthook |-> resthook, target_url |-> target_url,
                  is_active |-> TRUE])

\* ResthookSubscriber.release: the subscriber stops being active
release(subs, i) == [subs EXCEPT ![i].is_active = FALSE]

\* save: the resthook is looked up again and the subscriber added
hook_save(rh, subs, data, org) ==
    add_subscriber(subs, get_resthook(rh, org, data.resthook), data.target_url)

\* CreateAPIMixin.post on ResthookSubscriberEndpoint: is_valid() ...
HookValidate(c) ==
    /\ hpc[c] = "idle"
    /\ LET errors == hook_is_valid(Resthook, ResthookSubscriber, hbody[c], Org1) IN
       IF errors # {}
       THEN /\ hpc' = [hpc EXCEPT ![c] = "done"]
            /\ hook_response' = [hook_response EXCEPT ![c] =
                  [status |-> 400, errors |-> errors, id |-> 0]]
       ELSE /\ hpc' = [hpc EXCEPT ![c] = "valid"]
            /\ UNCHANGED hook_response
    /\ UNCHANGED <<store, defs_vars, post_vars, env_vars, list_vars, Resthook,
                   ResthookSubscriber, hbody, delete_response, subscriber_list>>

\* ... then save(), post_save() (which does nothing here) and the response
HookSave(c) ==
    /\ hpc[c] = "valid"
    /\ hpc' = [hpc EXCEPT ![c] = "done"]
    /\ ResthookSubscriber' = hook_save(Resthook, ResthookSubscriber, hbody[c], Org1)
    /\ hook_response' = [hook_response EXCEPT ![c] =
          [status |-> 201, errors |-> {}, id |-> Len(ResthookSubscriber) + 1]]
    /\ UNCHANGED <<store, defs_vars, post_vars, env_vars, list_vars, Resthook,
                   hbody, delete_response, subscriber_list>>

\* ------------------------ ResthookSubscriberEndpoint, views.py 1700-1752
\* the ids a DELETE may name: those of the subscribers and one of none
SubscriberIds == 1..6

\* ResthookSubscriber.objects.filter(resthook__org=org, id=subscriber_id)
SubscriberOf(rh, subs, org, i) == i \in DOMAIN subs /\ rh[subs[i].resthook].org = org

\* faulty variant: the subscriber is looked up in every organization
destroyAnyOrg(given, i) ==
    /\ IF ~given
       THEN /\ delete_response' = [id |-> 0, status |-> 400]
            /\ UNCHANGED ResthookSubscriber
       ELSE IF i \notin DOMAIN ResthookSubscriber
       THEN /\ delete_response' = [id |-> i, status |-> 404]
            /\ UNCHANGED ResthookSubscriber
       ELSE /\ delete_response' = [id |-> i, status |-> 204]
            /\ ResthookSubscriber' = release(ResthookSubscriber, i)
    /\ UNCHANGED <<store, defs_vars, post_vars, env_vars, list_vars, Resthook,
                   hbody, hpc, hook_response, subscriber_list>>

\* destroy: `given` tells whether the query has a non-empty id
destroy(given, i) ==
    /\ IF ~given
       THEN /\ delete_response' = [id |-> 0, status |-> 400]
            /\ UNCHANGED ResthookSubscriber
       ELSE IF ~SubscriberOf(Resthook, ResthookSubscriber, Org1, i)
       THEN /\ delete_response' = [id |-> i, status |-> 404]
            /\ UNCHANGED ResthookSubscriber
       ELSE /\ delete_response' = [id |-> i, status |-> 204]
            /\ ResthookSubscriber' = release(ResthookSubscriber, i)
    /\ UNCHANGED <<store, defs_vars, post_vars, env_vars, list_vars, Resthook,
                   hbody, hpc, hook_response, subscriber_list>>

Delete == \E given \in BOOLEAN, i \in SubscriberIds : destroy(given, i)

\* get_queryset: the active subscribers of the resthooks of the org
SubscribersQueryset(rh, subs, org) ==
    {i \in DOMAIN subs : rh[subs[i].resthook].org = org /\ subs[i].is_active}

\* GET on the subscribers
ListSubscribers ==
    /\ subscriber_list' =
          [status |-> 200,
           results |-> SubscribersQueryset(Resthook, ResthookSubscriber, Org1)]
    /\ subscriber_list' # subscriber_list
    /\ UNCHANGED <<store, defs_vars, post_vars, env_vars, list_vars, Resthook,
                   ResthookSubscriber, hbody, hpc, hook_response, delete_response>>

\* ------------------------------------------ ListAPIMixin.list, lines 209-226
\* the query parameters of the model
ParamNames == {"contact", "folder", "label", "broadcast", "id", "flow"}

\* exclusive_params and required_params of the endpoint classes: those of
\* MessagesEndpoint and RunsEndpoint, and the defaults of ListAPIMixin
exclusive_params(endpoint) ==
    CASE endpoint = "messages" -> <<"contact", "folder", "label", "broadcast">>
      [] endpoint = "runs" -> <<"contact", "flow">>
      [] OTHER -> <<>>

required_params(endpoint) ==
    CASE endpoint = "messages" -> <<"contact", "folder", "label", "broadcast", "id">>
      [] OTHER -> <<>>

\* the truth value Python gives params.get(p): None (the parameter is absent)
\* and the empty string are false
Truthy(v) == v # None /\ v # ""

\* sum([(1 if params.get(p) else 0) for p in ps])
RECURSIVE SumGiven(_, _)
SumGiven(params, ps) ==
    IF ps = <<>> THEN 0
    ELSE (IF Truthy(params[Head(ps)]) THEN 1 ELSE 0) + SumGiven(params, Tail(ps))

\* ", ".join(ps)
RECURSIVE Join(_)
Join(ps) ==
    IF ps = <<>> THEN ""
    ELSE IF Len(ps) = 1 THEN Head(ps)
    ELSE Head(ps) \o ", " \o Join(Tail(ps))

\* faulty variant: the required parameters are not looked at
check_queryExclusiveOnly(params, endpoint) ==
    IF SumGiven(params, exclusive_params(endpoint)) > 1
    THEN "You may only specify one of the " \o Join(exclusive_params(endpoint))
         \o " parameters"
    ELSE None

\* check_query: the message of the InvalidQueryError it raises, None when it
\* returns
check_query(params, endpoint) ==
    IF SumGiven(params, exclusive_params(endpoint)) > 1
    THEN "You may only specify one of the " \o Join(exclusive_params(endpoint))
         \o " parameters"
    ELSE IF /\ required_params(endpoint) # <<>>
            /\ SumGiven(params, required_params(endpoint)) # 1
    THEN "You must specify one of the " \o Join(required_params(endpoint))
         \o " parameters"
    ELSE None

NoQuery == [endpoint |-> None, format |-> None, params |-> [p \in ParamNames |-> None]]

\* error: the message of the InvalidQueryError; queried: whether the handler
\* went on to query the table; answered: whether it answered with a list
NoResult == [error |-> None, queried |-> FALSE, answered |-> FALSE]

\* list: check_query comes first; without a format the handler answers
\* Response([]) and makes no query
list ==
    /\ lpc = "idle"
    /\ lpc' = "done"
    /\ LET error == check_query(query.params, query.endpoint) IN
       query_result' =
          IF error # None
          THEN [error |-> error, queried |-> FALSE, answered |-> FALSE]
          ELSE [error |-> None, queried |-> query.format # None, answered |-> TRUE]
    /\ UNCHANGED <<store, defs_vars, post_vars, env_vars, hook_vars, query>>

\* ------------------------------------------------------------ initial states
\* Rows of the store.  References stay inside an organization: a flow refers
\* to flows and groups of its own org, an event to a flow of its campaign's
\* org, a trigger to a flow of its org.
FlowRow(org, active, subs, groups) ==
    [org |-> org, is_active |-> active, flows |-> subs, groups |-> groups]

EdgeSets == {E \in SUBSET (OwnFlows \X OwnFlows) : Cardinality(E) <= MaxDeps}

ForeignKinds == {"flow", "campaign", "contact", "group"}

Keys(own, foreign, kind, F) == own \cup (IF kind \in F THEN {foreign} ELSE {})

\* the store with the sub-flow references E, the campaign events S, the
\* foreign entities of the kinds F, the URNs U of the own contact, and the
\* flows in A active
StoreOf(E, S, F, U, A) ==
    [Flow |->
        [f \in Keys(OwnFlows, ForeignFlow, "flow", F) |->
            IF f = ForeignFlow
            THEN FlowRow(Org2, TRUE, {ForeignFlow},
                         IF "group" \in F THEN {ForeignGroup} ELSE {})
            ELSE FlowRow(Org1, f \in A, {g \in OwnFlows : <<f, g>> \in E},
                         IF f = "fB" THEN {OwnGroup} ELSE {})],
     Campaign |->
        [c \in Keys({OwnCampaign}, ForeignCampaign, "campaign", F) |->
            [org |-> IF c = OwnCampaign THEN Org1 ELSE Org2]],
     CampaignEvent |->
        {e \in S : e.campaign = ForeignCampaign =>
                      "campaign" \in F /\ "flow" \in F},
     Trigger |->
        [t \in Keys({"t1"}, "tX", "flow", F) |->
            IF t = "t1" THEN [org |-> Org1, flow |-> "fC"]
            ELSE [org |-> Org2, flow |-> ForeignFlow]],
     ContactGroup |->
        [g \in Keys({OwnGroup}, ForeignGroup, "group", F) |->
            [org |-> IF g = OwnGroup THEN Org1 ELSE Org2, is_active |-> TRUE]],
     Contact |->
        [k \in Keys({OwnContact}, ForeignContact, "contact", F) |->
            IF k = OwnContact
            THEN [org |-> Org1, is_active |-> TRUE, urns |-> U]
            ELSE [org |-> Org2, is_active |-> TRUE, urns |-> {"tel:2"}]],
     FlowStart |-> <<>>]

ForeignEvent ==
    [campaign |-> ForeignCampaign, event_type |-> "F", is_active |-> TRUE,
     flow |-> ForeignFlow]

EventPool ==
    [campaign : {OwnCampaign}, event_type : {"F", "M"}, is_active : BOOLEAN,
     flow : {None, "fA", "fC"}]
    \cup {ForeignEvent}

EventSets == {S \in SUBSET EventPool : Cardinality(S) <= MaxEvents}

FixedEdges == {<<"fA", "fB">>}
FixedEvents == {[campaign |-> OwnCampaign, event_type |-> "F", is_active |-> TRUE,
                 flow |-> "fC"],
                ForeignEvent}

NoRequest == [flow |-> {}, campaign |-> {}, flow_uuid |-> {}, campaign_uuid |-> {},
              dependencies |-> None]

\* requests for flows, over every flow graph
GraphRequests ==
    {[NoRequest EXCEPT !.flow = F, !.campaign = C, !.dependencies = d] :
        F \in {S \in SUBSET (OwnFlows \cup {ForeignFlow, NoSuch}) :
                  Cardinality(S) <= MaxRequested},
        C \in {{}, {OwnCampaign}},
        d \in {None, "false"}}

\* requests for campaigns, over every set of campaign events
CampaignRequests ==
    {[NoRequest EXCEPT !.flow = F, !.campaign = C, !.dependencies = d] :
        F \in {{}, {"fC"}, {NoSuch}},
        C \in SUBSET {OwnCampaign, ForeignCampaign, NoSuch},
        d \in {None, "false"}}

\* requests that mix the new parameters and the deprecated ones
ParamRequests ==
    [flow : {{}, {"fA"}},
     campaign : {{}, {OwnCampaign}},
     flow_uuid : {{}, {<<"fB">>}, {<<"fA", "fC">>}, {<<"fB">>, <<NoSuch>>}},
     campaign_uuid : {{}, {<<OwnCampaign>>}},
     dependencies : {None, "true", "false"}]

NoBody == [is_dict |-> TRUE, fields |-> {}, flow |-> None, contacts |-> {},
           groups |-> {}, urns |-> {}, restart_participants |-> TRUE]

InitStore(db) ==
    /\ Flow = db.Flow
    /\ Campaign = db.Campaign
    /\ CampaignEvent = db.CampaignEvent
    /\ Trigger = db.Trigger
    /\ ContactGroup = db.ContactGroup
    /\ Contact = db.Contact
    /\ FlowStart = db.FlowStart
    /\ store0 = db

InitLocals ==
    /\ flow_uuids = {}
    /\ campaign_uuids = {}
    /\ depends = FALSE
    /\ flows = {}
    /\ campaigns = {}
    /\ dependencies = NewDependencies({})
    /\ todo = {}
    /\ response = [status |-> 0, export |-> export_definitions({}, {}, {})]
    /\ runs = 0
    /\ previous = [status |-> 0, export |-> export_definitions({}, {}, {})]
    /\ validated = [c \in Clients |-> NoValidated]
    /\ output = [c \in Clients |-> [id |-> 0, status |-> None]]
    /\ post_response = [c \in Clients |-> NoResponse]
    /\ async_calls = <<>>
    /\ queue = {}
    /\ list_response = NoList

\* no request on the resthook subscribers
NoHookBody == [is_dict |-> TRUE, fields |-> {}, resthook |-> None, target_url |-> None]

NoHookResponse == [status |-> 0, errors |-> {}, id |-> 0]

NoHookRequests ==
    /\ Resthook = [s \in {} |-> None]
    /\ ResthookSubscriber = <<>>
    /\ hbody = [c \in Clients |-> NoHookBody]
    /\ hpc = [c \in Clients |-> "none"]
    /\ hook_response = [c \in Clients |-> NoHookResponse]
    /\ delete_response = [id |-> 0, status |-> 0]
    /\ subscriber_list = [status |-> 0, results |-> {}]

\* no request on a list endpoint
NoListRequest ==
    /\ query = NoQuery
    /\ lpc = "none"
    /\ query_result = NoResult

\* one export request, no POST
InitExport ==
    /\ InitLocals
    /\ NoHookRequests
    /\ NoListRequest
    /\ pc = "idle"
    /\ body = [c \in Clients |-> NoBody]
    /\ ppc = [c \in Clients |-> "none"]
    /\ broker_up = TRUE

Init ==
    /\ InitExport
    /\ \/ \E E \in EdgeSets :
             /\ InitStore(StoreOf(E, FixedEvents, ForeignKinds, {"tel:1"}, OwnFlows))
             /\ request \in GraphRequests
       \/ \E S \in EventSets :
             /\ InitStore(StoreOf(FixedEdges, S, ForeignKinds, {"tel:1"}, OwnFlows))
             /\ request \in CampaignRequests
       \/ /\ InitStore(StoreOf(FixedEdges, FixedEvents, ForeignKinds, {"tel:1"}, OwnFlows))
          /\ request \in ParamRequests

\* one request of the caller over a store with any foreign entities: an
\* export, or a POST by client p1
TenantStores ==
    {StoreOf(FixedEdges, FixedEvents, F, U, A) :
        F \in SUBSET ForeignKinds,
        U \in {{}, {"tel:1"}},
        A \in {OwnFlows, OwnFlows \ {"fA"}}}

TenantRequests ==
    {[NoRequest EXCEPT !.flow = F, !.campaign = C, !.dependencies = d] :
        F \in SUBSET {"fA", ForeignFlow},
        C \in SUBSET {OwnCampaign, ForeignCampaign},
        d \in {None, "false"}}

TenantBodies ==
    {[NoBody EXCEPT !.fields = {"flow", "contacts", "groups", "urns"} \ absent,
                    !.flow = f, !.contacts = ks, !.groups = gs, !.urns = us] :
        absent \in SUBSET {"contacts", "groups", "urns"},
        f \in {"fA", ForeignFlow, NoSuch},
        ks \in {{OwnContact}, {ForeignContact}, {OwnContact, ForeignContact}},
        gs \in {{OwnGroup}, {ForeignGroup}},
        us \in {{"tel:1"}, {"tel:2"}, {"tel:1", "Tel:2"}, {"bad"}}}

InitTenant ==
    /\ InitLocals
    /\ NoHookRequests
    /\ NoListRequest
    /\ \E db \in TenantStores : InitStore(db)
    /\ \/ /\ pc = "idle"
          /\ request \in TenantRequests
          /\ body = [c \in Clients |-> NoBody]
          /\ ppc = [c \in Clients |-> "none"]
          /\ broker_up = TRUE
       \/ /\ pc = "none"
          /\ request = NoRequest
          /\ \E b \in TenantBodies : body = [c \in Clients |-> IF c = "p1" THEN b ELSE NoBody]
          /\ ppc = [c \in Clients |-> IF c = "p1" THEN "idle" ELSE "none"]
          /\ broker_up \in BOOLEAN

\* Flow starts: a store with an inactive flow, contact and group, with or
\* without starts made earlier (one of the caller's org, one of another org)
InactiveFlow == "fC"
InactiveContact == "k0"
InactiveGroup == "g0"

EarlierStarts ==
    <<[flow |-> "fA", contacts |-> {OwnContact}, groups |-> {},
       restart_participants |-> TRUE, status |-> "C", is_active |-> TRUE],
      [flow |-> ForeignFlow, contacts |-> {ForeignContact}, groups |-> {},
       restart_participants |-> TRUE, status |-> "P", is_active |-> TRUE]>>

StartStore(starts) ==
    LET db == StoreOf(FixedEdges, FixedEvents, ForeignKinds, {"tel:1"},
                      OwnFlows \ {InactiveFlow})
    IN [db EXCEPT
          !.Contact = [k \in DOMAIN db.Contact \cup {InactiveContact} |->
                          IF k = InactiveContact
                          THEN [org |-> Org1, is_active |-> FALSE, urns |-> {}]
                          ELSE db.Contact[k]],
          !.ContactGroup = [g \in DOMAIN db.ContactGroup \cup {InactiveGroup} |->
                               IF g = InactiveGroup
                               THEN [org |-> Org1, is_active |-> FALSE]
                               ELSE db.ContactGroup[g]],
          !.FlowStart = starts]

\* a JSON object with any of the fields; an absent field has no value
FieldValues(name, values, absent) ==
    {[present |-> TRUE, value |-> v] : v \in values}
    \cup {[present |-> FALSE, value |-> absent]}

StartBodies ==
    {[is_dict |-> TRUE,
      fields |-> {n \in FieldNames :
                     \/ n = "flow" /\ f.present
                     \/ n = "contacts" /\ ks.present
                     \/ n = "groups" /\ gs.present
                     \/ n = "urns" /\ us.present
                     \/ n = "restart_participants" /\ rp.present},
      flow |-> f.value, contacts |-> ks.value, groups |-> gs.value,
      urns |-> us.value, restart_participants |-> rp.value] :
        f \in FieldValues("flow", {"fA", InactiveFlow, ForeignFlow, NoSuch}, None),
        ks \in FieldValues("contacts",
                  {{}, {OwnContact}, {OwnContact, ForeignContact}, {InactiveContact}}, {}),
        gs \in FieldValues("groups", {{}, {OwnGroup}, {OwnGroup, InactiveGroup}}, {}),
        us \in FieldValues("urns",
                  {{}, {"tel:1"}, {"tel:1", "Tel:2"}, {"bad", "tel:2"}}, {}),
        rp \in FieldValues("restart_participants", {FALSE}, TRUE)}
    \cup {[NoBody EXCEPT !.is_dict = FALSE]}

\* the bodies of the requests sent at the same time
ConcurrentBodies ==
    {[NoBody EXCEPT !.fields = {"flow", "contacts"}, !.flow = "fA",
                    !.contacts = {OwnContact}],
     [NoBody EXCEPT !.fields = {"flow", "urns"}, !.flow = "fA", !.urns = {"tel:2"}],
     [NoBody EXCEPT !.fields = {"flow", "contacts"}, !.flow = "fA",
                    !.contacts = {ForeignContact}],
     [NoBody EXCEPT !.fields = {"flow", "urns"}, !.flow = NoSuch, !.urns = {"tel:2"}]}

\* flow start POSTs, no export: one client with any body, or every client
\* with a body, at the same time
InitStart ==
    /\ InitLocals
    /\ NoHookRequests
    /\ NoListRequest
    /\ pc = "none"
    /\ request = NoRequest
    /\ broker_up \in BOOLEAN
    /\ \/ /\ \E starts \in {<<>>, EarlierStarts} : InitStore(StartStore(starts))
          /\ \E b \in StartBodies :
                body = [c \in Clients |-> IF c = "p1" THEN b ELSE NoBody]
          /\ ppc = [c \in Clients |-> IF c = "p1" THEN "idle" ELSE "none"]
       \/ /\ InitStore(StartStore(EarlierStarts))
          /\ body \in [Clients -> ConcurrentBodies]
          /\ ppc = [c \in Clients |-> "idle"]

\* one GET on a list endpoint, with any parameters
Queries ==
    [endpoint : {"messages", "runs", "flow_starts"},
     format : {None, "json"},
     params : [ParamNames -> {None, "", "x"}]]

InitList ==
    /\ InitLocals
    /\ NoHookRequests
    /\ InitStore(StartStore(<<>>))
    /\ pc = "none"
    /\ request = NoRequest
    /\ body = [c \in Clients |-> NoBody]
    /\ ppc = [c \in Clients |-> "none"]
    /\ broker_up = TRUE
    /\ query \in Queries
    /\ lpc = "idle"
    /\ query_result = NoResult

\* the resthooks: one of the caller, one of the caller that is inactive, one
\* of another organization
Resthooks ==
    [s \in {OwnHook, InactiveHook, ForeignHook} |->
        [org |-> IF s = ForeignHook THEN Org2 ELSE Org1,
         is_active |-> s # InactiveHook]]

\* the subscribers of earlier requests: one active, one of the other
\* organization, one released
EarlierSubscribers ==
    <<[resthook |-> OwnHook, target_url |-> "http://a.io/1", is_active |-> TRUE],
      [resthook |-> ForeignHook, target_url |-> "http://a.io/1", is_active |-> TRUE],
      [resthook |-> OwnHook, target_url |-> "http://a.io/2", is_active |-> FALSE]>>

HookBodies ==
    {[NoHookBody EXCEPT !.fields = HookFieldNames \ absent,
                        !.resthook = s, !.target_url = u] :
        absent \in SUBSET HookFieldNames,
        s \in Slugs \cup {"not a slug"},
        u \in URLs \cup {"not a url"}}
    \cup {[NoHookBody EXCEPT !.is_dict = FALSE]}

ConcurrentHookBodies ==
    {[NoHookBody EXCEPT !.fields = HookFieldNames,
                        !.resthook = OwnHook, !.target_url = u] : u \in URLs}

\* subscriptions and deletions, no export and no flow start: one client
\* with any body, or every client with a body, at the same time
InitHook ==
    /\ InitLocals
    /\ NoListRequest
    /\ InitStore(StartStore(<<>>))
    /\ pc = "none"
    /\ request = NoRequest
    /\ body = [c \in Clients |-> NoBody]
    /\ ppc = [c \in Clients |-> "none"]
    /\ broker_up = TRUE
    /\ Resthook = Resthooks
    /\ ResthookSubscriber \in {<<>>, EarlierSubscribers}
    /\ hook_response = [c \in Clients |-> NoHookResponse]
    /\ delete_response = [id |-> 0, status |-> 0]
    /\ subscriber_list = [status |-> 0, results |-> {}]
    /\ \/ /\ \E b \in HookBodies :
                hbody = [c \in Clients |-> IF c = "p1" THEN b ELSE NoHookBody]
          /\ hpc = [c \in Clients |-> IF c = "p1" THEN "idle" ELSE "none"]
       \/ /\ hbody \in [Clients -> ConcurrentHookBodies]
          /\ hpc = [c \in Clients |-> "idle"]

\* bodies that are no single JSON object: a list holding an object, or
\* holding nothing
ListBodies == {[b EXCEPT !.is_dict = FALSE] : b \in ConcurrentBodies \cup {NoBody}}

ListHookBodies ==
    {[b EXCEPT !.is_dict = FALSE] : b \in ConcurrentHookBodies \cup {NoHookBody}}

\* one POST on each write endpoint: client p1 starts a flow, client p2
\* subscribes to a resthook
InitWrite ==
    /\ InitLocals
    /\ NoListRequest
    /\ \E starts \in {<<>>, EarlierStarts} : InitStore(StartStore(starts))
    /\ pc = "none"
    /\ request = NoRequest
    /\ broker_up \in BOOLEAN
    /\ \E b \in ConcurrentBodies \cup ListBodies :
          body = [c \in Clients |-> IF c = "p1" THEN b ELSE NoBody]
    /\ ppc = [c \in Clients |-> IF c = "p1" THEN "idle" ELSE "none"]
    /\ Resthook = Resthooks
    /\ ResthookSubscriber \in {<<>>, EarlierSubscribers}
    /\ hook_response = [c \in Clients |-> NoHookResponse]
    /\ delete_response = [id |-> 0, status |-> 0]
    /\ subscriber_list = [status |-> 0, results |-> {}]
    /\ \E b \in ConcurrentHookBodies \cup ListHookBodies :
          hbody = [c \in Clients |-> IF c = "p2" THEN b ELSE NoHookBody]
    /\ hpc = [c \in Clients |-> IF c = "p2" THEN "idle" ELSE "none"]

Next == Get \/ LoopFlow \/ Finish \/ Repeat

Spec == Init /\ [][Next]_vars

\* the export terminates when the handler is let run
FairSpec == Spec /\ WF_vars(Next)

Post(c) == PostValidate(c) \/ PostSave(c) \/ PostAsync(c) \/ PostRender(c)

NextTenant == Next \/ \E c \in Clients : Post(c)

SpecTenant == InitTenant /\ [][NextTenant]_vars

NextStart ==
    \/ \E c \in Clients : Post(c)
    \/ ListStarts
    \/ BrokerChange
    \/ Worker

SpecStart == InitStart /\ [][NextStart]_vars

HookPost(c) == HookValidate(c) \/ HookSave(c)

NextHook ==
    \/ \E c \in Clients : HookPost(c)
    \/ Delete
    \/ ListSubscribers

SpecHook == InitHook /\ [][NextHook]_vars

NextWrite == \E c \in Clients : Post(c) \/ HookPost(c)

SpecWrite == InitWrite /\ [][NextWrite]_vars

NextList == list

SpecList == InitList /\ [][NextList]_vars

\* the POSTs alone, each request served to its end
NextPost == \E c \in Clients : Post(c)

FairSpecPost ==
    /\ InitStart
    /\ [][NextPost]_vars
    /\ \A c \in Clients : WF_vars(Post(c))

\* ------------------------------------------------------------- properties
\* the flows reachable from S over the sub-flow references, as a fixpoint
RECURSIVE Closure(_, _)
Closure(db, S) ==
    LET n == S \cup UNION {db.Flow[f].flows : f \in S}
    IN IF n = S THEN S ELSE Closure(db, n)

\* the requested flows and campaigns that exist in the caller's org
RequestedFlows == {f \in flow_uuids : f \in DOMAIN Flow /\ Flow[f].org = Org1}
RequestedCampaigns ==
    {c \in campaign_uuids : c \in DOMAIN Campaign /\ Campaign[c].org = Org1}

Exported == response.export

TwoFlowCycle ==
    /\ Flow["fA"].flows = {"fB"}
    /\ Flow["fB"].flows = {"fA"}
    /\ flow_uuids = {"fA"}
    /\ campaign_uuids = {}

\* C1: with dependencies enabled the export ends, with status 200, and its
\* flows are exactly the flows reachable from the working set over the
\* sub-flow references, whatever cycles and self-references the graph has;
\* for the cycle fA -> fB -> fA with fA requested they are {fA, fB}.
C1_CycleSafeExport ==
    /\ [](pc = "done" /\ depends =>
            /\ response.status = 200
            /\ Exported.flows = Closure(DB, flows)
            /\ (TwoFlowCycle => Exported.flows = {"fA", "fB"}))
    /\ <>(pc = "done")

C1_Witness ==
    /\ pc = "done"
    /\ depends
    /\ TwoFlowCycle
    /\ Exported.flows = {"fA", "fB"}

\* C2: with dependencies=false and no campaign requested, the export holds
\* exactly the requested flows of the caller's org, no trigger, no campaign.
C2_NoDependencies ==
    pc = "done" /\ ~depends /\ campaign_uuids = {} =>
        /\ Exported.flows = RequestedFlows
        /\ Exported.triggers = {}
        /\ Exported.campaigns = {}

C2_Witness ==
    /\ pc = "done"
    /\ ~depends
    /\ campaign_uuids = {}
    /\ \E f \in Exported.flows :
          /\ ~(Flow[f].flows \subseteq Exported.flows)
          /\ \E t \in DOMAIN Trigger : Trigger[t].flow = f

\* C3: every requested flow and campaign of the caller's org is in the
\* export, with or without dependencies; the traversal keeps the campaigns
\* the accumulator started with.
C3_BaseSetKept ==
    /\ pc \in {"loop", "done"} => RequestedCampaigns \subseteq dependencies.campaigns
    /\ pc = "done" =>
          /\ RequestedFlows \subseteq Exported.flows
          /\ RequestedCampaigns \subseteq Exported.campaigns

C3_Witness ==
    /\ pc = "done"
    /\ RequestedFlows # {}
    /\ RequestedCampaigns # {}
    /\ Exported.flows # RequestedFlows

\* C4: UUIDs that match nothing are dropped: the status is 200, the export
\* holds only rows of the store, with every requested one that resolves,
\* and it is empty when nothing resolves.
C4_UnknownDropped ==
    pc = "done" =>
        /\ response.status = 200
        /\ Exported.flows \subseteq DOMAIN Flow
        /\ Exported.campaigns \subseteq DOMAIN Campaign
        /\ Exported.triggers \subseteq DOMAIN Trigger
        /\ RequestedFlows \subseteq Exported.flows
        /\ RequestedCampaigns \subseteq Exported.campaigns
        /\ (RequestedFlows = {} /\ RequestedCampaigns = {} =>
               Exported = export_definitions({}, {}, {}))

C4_Witness ==
    /\ pc = "done"
    /\ NoSuch \in flow_uuids
    /\ RequestedFlows # {}
    /\ response.status = 200

\* the rows of the caller's org
OwnRows(table) == [k \in {x \in DOMAIN table : table[x].org = Org1} |-> table[k]]

Erase(db) ==
    [Flow |-> OwnRows(db.Flow),
     Campaign |-> OwnRows(db.Campaign),
     CampaignEvent |-> {e \in db.CampaignEvent : db.Campaign[e.campaign].org = Org1},
     Trigger |-> OwnRows(db.Trigger),
     ContactGroup |-> OwnRows(db.ContactGroup),
     Contact |-> OwnRows(db.Contact),
     FlowStart |-> [i \in {x \in DOMAIN db.FlowStart :
                              db.Flow[db.FlowStart[x].flow].org = Org1} |->
                       db.FlowStart[i]]]

C6_Deterministic ==
    pc = "done" =>
        /\ runs >= 2 => response = previous
        /\ response = DefinitionsGet(DB, request, Org1)

C6_Witness ==
    /\ pc = "done"
    /\ runs = 2
    /\ depends
    /\ Cardinality(flows) >= 2
    /\ \E f \in flows : Flow[f].flows \ flows # {}

\* C7: no step of an export changes a row of the store or calls async_start.
C7_ExportReadOnly ==
    [][/\ Flow' = Flow
       /\ Campaign' = Campaign
       /\ CampaignEvent' = CampaignEvent
       /\ Trigger' = Trigger
       /\ ContactGroup' = ContactGroup
       /\ Contact' = Contact
       /\ FlowStart' = FlowStart
       /\ async_calls' = async_calls]_vars

C7_Witness ==
    /\ pc = "done"
    /\ depends
    /\ Exported.flows # {}
    /\ Exported.campaigns # {}
    /\ Exported.triggers # {}

\* C8: a flow that is not itself requested is in the working set exactly when
\* dependencies are enabled and an active event of type flow of a requested
\* campaign of the caller's org refers to it; without dependencies a requested
\* campaign is exported and its flows are not.
C8_CampaignFlows ==
    /\ pc \in {"loop", "done"} =>
          \A f \in DOMAIN Flow \ RequestedFlows :
              f \in flows <=>
                  /\ depends
                  /\ \E e \in CampaignEvent :
                        /\ e.flow = f
                        /\ e.is_active
                        /\ e.event_type = "F"
                        /\ e.campaign \in RequestedCampaigns
    /\ pc = "done" /\ ~depends =>
          /\ Exported.campaigns = RequestedCampaigns
          /\ Exported.flows = RequestedFlows

C8_Witness ==
    /\ pc = "done"
    /\ depends
    /\ \E e \in CampaignEvent :
          e.campaign \in RequestedCampaigns /\ e.event_type = "F" /\ e.is_active
          /\ e.flow \in flows
    /\ \E e \in CampaignEvent :
          e.campaign \in RequestedCampaigns /\ ~e.is_active /\ e.flow # None
          /\ e.flow \notin flows

\* C9: the values of `flow` and `campaign` are resolved and exported whatever
\* deprecated parameter comes with them.
C9_NewParamsWin ==
    pc = "done" =>
        /\ FlowsFilter(DB, request.flow, Org1) \subseteq Exported.flows
        /\ CampaignsFilter(DB, request.campaign, Org1) \subseteq Exported.campaigns

\* C10: from one iteration of the loop to the next, and into the export, each
\* collection of the accumulator keeps every member it had.
C10_AccumulatorGrows ==
    [][pc = "loop" =>
          /\ dependencies.flows \subseteq dependencies'.flows
          /\ dependencies.campaigns \subseteq dependencies'.campaigns
          /\ dependencies.triggers \subseteq dependencies'.triggers
          /\ dependencies.groups \subseteq dependencies'.groups]_vars

C10_Witness ==
    /\ pc = "loop"
    /\ todo # {}
    /\ dependencies.flows # {}
    /\ dependencies.campaigns # {}
    /\ dependencies.triggers # {}
    /\ dependencies.groups # {}

\* ------------------------------------------------- properties of flow starts
\* what the body of a POST asks for, against the rows of the caller's org
FlowResolves(b) ==
    /\ "flow" \in b.fields
    /\ b.flow \in DOMAIN Flow
    /\ Flow[b.flow].org = Org1
    /\ Flow[b.flow].is_active

ContactsResolve(b) ==
    "contacts" \in b.fields =>
        \A k \in b.contacts :
            k \in DOMAIN Contact /\ Contact[k].org = Org1 /\ Contact[k].is_active

GroupsResolve(b) ==
    "groups" \in b.fields =>
        \A g \in b.groups :
            /\ g \in DOMAIN ContactGroup
            /\ ContactGroup[g].org = Org1
            /\ ContactGroup[g].is_active

UrnsWellFormed(b) == "urns" \in b.fields => \A u \in b.urns : URN_validate(u)

Audience(b) ==
    (IF "contacts" \in b.fields THEN b.contacts ELSE {})
    \cup (IF "groups" \in b.fields THEN b.groups ELSE {})
    \cup (IF "urns" \in b.fields THEN b.urns ELSE {})

BadFields(b) ==
    {n \in {"flow", "contacts", "groups", "urns"} :
        \/ n = "flow" /\ ~FlowResolves(b)
        \/ n = "contacts" /\ ~ContactsResolve(b)
        \/ n = "groups" /\ ~GroupsResolve(b)
        \/ n = "urns" /\ ~UrnsWellFormed(b)}

Invalid(b) == b.is_dict /\ (BadFields(b) # {} \/ Audience(b) = {})

\* the starts made since the first request, and the ids the requests of the
\* clients in S saved
NewStarts == DOMAIN FlowStart \ DOMAIN store0.FlowStart

SavedBy(S) == {output[c].id : c \in S} \ {0}

Answered(c) == ppc[c] \notin {"none", "idle"}

\* C11: a POST with a flow, contact or group that does not resolve, a
\* malformed URN or an empty audience is answered 400; it saves no FlowStart
\* and calls async_start on nothing: the new starts and the calls are those of
\* the other requests.
C11_InvalidRejected ==
    \A c \in Clients :
        Answered(c) /\ Invalid(body[c]) =>
            /\ ppc[c] = "done"
            /\ post_response[c].status = 400
            /\ post_response[c].errors # {}
            /\ output[c].id = 0
            /\ NewStarts = SavedBy(Clients \ {c})
            /\ Range(async_calls) \subseteq SavedBy(Clients \ {c})

C11_Witness ==
    /\ post_response["p1"].status = 400
    /\ ForeignContact \in body["p1"].contacts
    /\ "contacts" \in {e[1] : e \in post_response["p1"].errors}
    /\ post_response["p2"].status = 201
    /\ Len(async_calls) = 1

\* C12: the step that answers a POST with 400 leaves every table of the store
\* as it was; no Contact is created for a URN of the rejected request.
C12_RejectedUnapplied ==
    [][\A c \in Clients :
          post_response[c].status # 400 /\ post_response'[c].status = 400 =>
              store' = store]_vars

Valid(b) == b.is_dict /\ BadFields(b) = {} /\ Audience(b) # {}

\* how many times async_start was called on the start i
CallsOn(i) == Cardinality({n \in 1..Len(async_calls) : async_calls[n] = i})

\* C13: a POST whose body passes validation is served to its end; its save
\* adds exactly one FlowStart, pending, and once served async_start has been
\* called exactly once on that start.  No start and no call exists that is
\* not the one of a request.
C13_OneStartOneCall ==
    /\ [](\A c \in Clients :
             /\ Valid(body[c]) /\ ppc[c] = "done" =>
                   /\ post_response[c].status \in {201, 500}
                   /\ output[c].id \in NewStarts
                   /\ CallsOn(output[c].id) = 1
                   /\ \A d \in Clients \ {c} : output[d].id # output[c].id
             /\ NewStarts = SavedBy(Clients)
             /\ Range(async_calls) \subseteq SavedBy(Clients))
    /\ [][\A c \in Clients :
             ppc[c] = "valid" /\ ppc'[c] = "saved" =>
                 /\ output'[c].id \notin DOMAIN FlowStart
                 /\ DOMAIN FlowStart' = DOMAIN FlowStart \cup {output'[c].id}
                 /\ FlowStart'[output'[c].id].status = "P"]_vars
    /\ <>(\A c \in Clients : ppc[c] \in {"none", "done"})

C13_Witness ==
    /\ ppc["p1"] = "done"
    /\ ppc["p2"] = "none"
    /\ post_response["p1"].status = 201
    /\ body["p1"].fields = {"flow", "urns"}
    /\ body["p1"].urns = {"tel:1"}
    /\ NewStarts = {output["p1"].id}
    /\ async_calls = <<output["p1"].id>>

ErrorKeys(c) == {e[1] : e \in post_response[c].errors}

\* C14 as stated: a POST whose contacts, groups and urns are all absent or
\* empty is answered 400 with a non-field error and saves nothing.
C14_EmptyAudienceNonField ==
    \A c \in Clients :
        Answered(c) /\ body[c].is_dict /\ Audience(body[c]) = {} =>
            /\ post_response[c].status = 400
            /\ "non_field_errors" \in ErrorKeys(c)
            /\ output[c].id = 0

\* C14, amended: when every field of the body passes its own validation, an
\* empty audience is answered 400 with the non-field error of validate() alone
\* and saves nothing, and an audience of at least one contact, group or URN
\* passes; when a field fails, validate() is not reached and the 400 carries
\* field errors only.
C14_CrossFieldRule ==
    \A c \in Clients :
        Answered(c) /\ body[c].is_dict =>
            /\ BadFields(body[c]) = {} /\ Audience(body[c]) = {} =>
                  /\ ppc[c] = "done"
                  /\ post_response[c].status = 400
                  /\ post_response[c].errors =
                        {<<"non_field_errors",
                           "Must specify at least one group, contact or URN">>}
                  /\ output[c].id = 0
                  /\ NewStarts = SavedBy(Clients \ {c})
            /\ BadFields(body[c]) = {} /\ Audience(body[c]) # {} =>
                  /\ post_response[c].status # 400
                  /\ post_response[c].errors = {}
            /\ BadFields(body[c]) # {} =>
                  /\ post_response[c].status = 400
                  /\ ErrorKeys(c) = BadFields(body[c])

C14_Witness ==
    /\ ppc["p1"] = "done"
    /\ post_response["p1"].status = 400
    /\ body["p1"].fields = {"flow", "contacts", "urns"}
    /\ body["p1"].flow = "fA"
    /\ Audience(body["p1"]) = {}
    /\ ErrorKeys("p1") = {"non_field_errors"}

\* C15: async_start is called on, and the task queue holds, only starts that
\* are rows of the store; a start returned with 201 is in the list of the
\* caller's starts with that id, and a GET with a returned id answers that
\* start and nothing else.
C15_SavedBeforeHandoff ==
    /\ Range(async_calls) \subseteq DOMAIN FlowStart
    /\ queue \subseteq DOMAIN FlowStart
    /\ \A c \in Clients :
          post_response[c].status = 201 =>
              {r.id : r \in StartsList(DB, Org1, post_response[c].data.id).results}
                  = {post_response[c].data.id}
    /\ list_response.status = 200 /\ list_response.id # 0 =>
          {r.id : r \in list_response.results} = {list_response.id}

C15_Witness ==
    /\ post_response["p1"].status = 201
    /\ post_response["p2"].status = 201
    /\ list_response.id = post_response["p2"].data.id
    /\ \E r \in list_response.results : r.status = "starting"
    /\ Cardinality(queue) = 2

\* C16: a request whose start was saved and whose async_start the task queue
\* refused is answered with a 5xx error, never 201 or 400; every new start
\* that async_start was called on and the queue does not hold is still
\* pending and is the start of a request answered with that error.
C16_HandoffFailureReported ==
    /\ \A c \in Clients :
          ppc[c] = "done" /\ output[c].id # 0 =>
              IF output[c].id \in queue
              THEN post_response[c].status = 201
              ELSE /\ post_response[c].status >= 500
                   /\ post_response[c].status < 600
    /\ \A i \in NewStarts :
          i \in Range(async_calls) /\ i \notin queue =>
              /\ FlowStart[i].status = "P"
              /\ \E c \in Clients :
                    /\ output[c].id = i
                    /\ ppc[c] = "done"
                    /\ post_response[c].status = 500

C16_Witness ==
    /\ ppc["p1"] = "done"
    /\ post_response["p1"].status = 500
    /\ output["p1"].id \in NewStarts
    /\ FlowStart[output["p1"].id].status = "P"
    /\ post_response["p2"].status = 201

\* C17: the start a request saved carries the restart_participants of the
\* body, and true when the body has none.
C17_RestartFlagRecorded ==
    \A c \in Clients :
        output[c].id # 0 =>
            FlowStart[output[c].id].restart_participants =
                (IF "restart_participants" \in body[c].fields
                 THEN body[c].restart_participants
                 ELSE TRUE)

\* the clients whose POST passed validation and has been served
Served == {c \in Clients : Valid(body[c]) /\ ppc[c] = "done"}

\* the contacts of the caller's org a body names, by UUID or by URN
BodyContacts(b) ==
    (IF "contacts" \in b.fields THEN b.contacts ELSE {})
    \cup (IF "urns" \in b.fields
          THEN {k \in DOMAIN Contact :
                   /\ Contact[k].org = Org1
                   /\ \E u \in b.urns : URN_normalize(u) \in Contact[k].urns}
          ELSE {})

\* C18: whatever the interleaving, the served valid POSTs, identical ones
\* included, each have a start of their own, with the flow and the audience
\* of their own body, and one async_start call on it; once every client is
\* served, the new starts and the calls are as many as the valid POSTs.
C18_ConcurrentIndependent ==
    /\ \A c \in Served :
          /\ output[c].id \in NewStarts
          /\ \A d \in Served \ {c} : output[d].id # output[c].id
          /\ CallsOn(output[c].id) = 1
          /\ FlowStart[output[c].id].flow = body[c].flow
          /\ FlowStart[output[c].id].contacts = BodyContacts(body[c])
          /\ FlowStart[output[c].id].groups =
                (IF "groups" \in body[c].fields THEN body[c].groups ELSE {})
    /\ (\A c \in Clients : ppc[c] \in {"none", "done"}) =>
          /\ Cardinality(NewStarts) = Cardinality(Served)
          /\ Len(async_calls) = Cardinality(Served)

C18_Witness ==
    /\ Served = Clients
    /\ body["p1"] = body["p2"]
    /\ "urns" \in body["p1"].fields
    /\ Cardinality(NewStarts) = Cardinality(Clients)
    /\ Len(async_calls) = Cardinality(Clients)

\* C19: no start is removed; a start enters the store pending; a step that
\* changes a start already in the store is a step of the worker, which moves
\* its status and leaves the requests alone; a GET on the flow starts changes
\* neither the store nor the task queue.
C19_OnlyWorkerChangesStarts ==
    [][/\ DOMAIN FlowStart \subseteq DOMAIN FlowStart'
       /\ \A i \in DOMAIN FlowStart' \ DOMAIN FlowStart : FlowStart'[i].status = "P"
       /\ (\E i \in DOMAIN FlowStart : FlowStart'[i] # FlowStart[i]) =>
              /\ Worker
              /\ \A i \in DOMAIN FlowStart :
                    FlowStart'[i] = [FlowStart[i] EXCEPT !.status = FlowStart'[i].status]
       /\ list_response' # list_response =>
              /\ store' = store
              /\ async_calls' = async_calls
              /\ queue' = queue]_vars

C19_Witness ==
    /\ \E i \in NewStarts : FlowStart[i].status = "F"
    /\ \E i \in NewStarts : FlowStart[i].status = "P"
    /\ FlowStart[1].status = "C"
    /\ list_response.status = 200
    /\ \A c \in Clients : post_response[c].status = 201

\* C20: a body whose flow is missing, unknown, inactive or of another org is
\* answered 400 with an error on `flow` and saves nothing; a flow that is an
\* active flow of the caller's org gets no error on `flow`; every start the
\* requests made is on an active flow of the caller's org.
C20_FlowActiveInOrg ==
    /\ \A c \in Clients :
          Answered(c) /\ body[c].is_dict =>
              IF FlowResolves(body[c])
              THEN "flow" \notin ErrorKeys(c)
              ELSE /\ ppc[c] = "done"
                   /\ post_response[c].status = 400
                   /\ "flow" \in ErrorKeys(c)
                   /\ output[c].id = 0
    /\ \A i \in NewStarts :
          /\ FlowStart[i].flow \in DOMAIN Flow
          /\ Flow[FlowStart[i].flow].org = Org1
          /\ Flow[FlowStart[i].flow].is_active

C20_Witness ==
    /\ ppc["p1"] = "done"
    /\ body["p1"].flow = InactiveFlow
    /\ "flow" \in body["p1"].fields
    /\ body["p1"].contacts = {OwnContact}
    /\ post_response["p1"].status = 400
    /\ ErrorKeys("p1") = {"flow"}

\* C21: a list of contacts, or of groups, with one entry that is no active
\* contact, or group, of the caller's org fails the request on that field,
\* whatever else the list holds; the request saves no start, not even for the
\* entries that resolve.
C21_AllOrNothing ==
    \A c \in Clients :
        Answered(c) /\ body[c].is_dict =>
            /\ ~ContactsResolve(body[c]) =>
                  /\ post_response[c].status = 400
                  /\ "contacts" \in ErrorKeys(c)
            /\ ~GroupsResolve(body[c]) =>
                  /\ post_response[c].status = 400
                  /\ "groups" \in ErrorKeys(c)
            /\ ~ContactsResolve(body[c]) \/ ~GroupsResolve(body[c]) =>
                  /\ ppc[c] = "done"
                  /\ validated[c] = NoValidated
                  /\ output[c].id = 0
                  /\ \A i \in NewStarts : \E d \in Clients \ {c} : output[d].id = i

C21_Witness ==
    /\ ppc["p1"] = "done"
    /\ body["p1"].flow = "fA"
    /\ "flow" \in body["p1"].fields
    /\ body["p1"].groups = {OwnGroup, InactiveGroup}
    /\ body["p1"].contacts = {OwnContact}
    /\ "contacts" \in body["p1"].fields
    /\ ErrorKeys("p1") = {"groups"}
    /\ NewStarts = {}

\* C22 as stated: the 400 has an entry for each field that is invalid, and a
\* non_field_errors entry when the audience is empty.
C22_FieldAndCrossFieldEntries ==
    \A c \in Clients :
        Answered(c) /\ body[c].is_dict /\ post_response[c].status = 400 =>
            /\ BadFields(body[c]) \subseteq ErrorKeys(c)
            /\ Audience(body[c]) = {} => "non_field_errors" \in ErrorKeys(c)

\* C22, amended: every field is validated whatever the other fields did, and
\* the 400 has exactly one entry for each invalid field; the audience rule is
\* evaluated after the fields and only when all of them passed, and then the
\* 400 has the non_field_errors entry alone.
C22_ErrorEntries ==
    \A c \in Clients :
        Answered(c) /\ body[c].is_dict =>
            /\ BadFields(body[c]) # {} => post_response[c].status = 400
            /\ post_response[c].status = 400 =>
                  /\ Cardinality(post_response[c].errors) = Cardinality(ErrorKeys(c))
                  /\ IF BadFields(body[c]) # {}
                     THEN ErrorKeys(c) = BadFields(body[c])
                     ELSE /\ ErrorKeys(c) = {"non_field_errors"}
                          /\ Audience(body[c]) = {}

C22_Witness ==
    /\ ppc["p1"] = "done"
    /\ post_response["p1"].status = 400
    /\ body["p1"].flow = NoSuch
    /\ ForeignContact \in body["p1"].contacts
    /\ ErrorKeys("p1") = {"flow", "contacts"}

\* the contacts of the caller's org that have the URN u
ContactsOf(db, u) ==
    {k \in DOMAIN db.Contact : db.Contact[k].org = Org1 /\ u \in db.Contact[k].urns}

\* the URNs, normalized, of the well-formed lists the answered requests sent
ResolvedUrns ==
    UNION {{URN_normalize(u) : u \in body[c].urns} :
              c \in {d \in Clients : /\ Answered(d)
                                     /\ body[d].is_dict
                                     /\ "urns" \in body[d].fields
                                     /\ UrnsWellFormed(body[d])}}

NewContacts == DOMAIN Contact \ DOMAIN store0.Contact

\* C23: every URN of an answered request has exactly one contact in the
\* caller's org, however many requests named it: the contact that had it
\* before, unchanged, or else one new contact of the org with that URN alone;
\* no new contact exists but for a URN the org did not know.
C23_GetOrCreate ==
    /\ \A k \in DOMAIN store0.Contact :
          k \in DOMAIN Contact /\ Contact[k] = store0.Contact[k]
    /\ \A u \in ResolvedUrns :
          /\ Cardinality(ContactsOf(DB, u)) = 1
          /\ ContactsOf(store0, u) # {} => ContactsOf(DB, u) = ContactsOf(store0, u)
          /\ ContactsOf(store0, u) = {} => ContactsOf(DB, u) \subseteq NewContacts
    /\ \A k \in NewContacts :
          /\ Contact[k].org = Org1
          /\ \E u \in ResolvedUrns :
                /\ Contact[k].urns = {u}
                /\ ContactsOf(store0, u) = {}

C23_Witness ==
    /\ \A c \in Clients : post_response[c].status = 201
    /\ \A c \in Clients : body[c].urns = {"tel:2"}
    /\ NewContacts = {"n2"}
    /\ "tel:2" \in Contact[ForeignContact].urns
    /\ \A c \in Clients : post_response[c].data.contacts = {"n2"}

\* C24: a request whose urns hold an entry that is no URN is answered 400
\* with an error on `urns` and saves nothing, and no contact is made for any
\* URN of its list: every new contact has a URN of a well-formed list.
C24_MalformedUrnRejected ==
    /\ \A c \in Clients :
          Answered(c) /\ body[c].is_dict /\ ~UrnsWellFormed(body[c]) =>
              /\ ppc[c] = "done"
              /\ post_response[c].status = 400
              /\ "urns" \in ErrorKeys(c)
              /\ output[c].id = 0
              /\ (\A d \in Clients \ {c} : ppc[d] = "none") => Contact = store0.Contact
    /\ \A k \in NewContacts : Contact[k].urns \subseteq ResolvedUrns

C24_Witness ==
    /\ ppc["p1"] = "done"
    /\ body["p1"].urns = {"bad", "tel:2"}
    /\ body["p1"].flow = "fA"
    /\ "flow" \in body["p1"].fields
    /\ ContactsOf(DB, "tel:2") = {}
    /\ ErrorKeys("p1") = {"urns"}

\* C25: once async_start has returned, the response can be rendered whatever
\* the worker has done with the start; the step that renders it answers 201
\* with the start the request saved and the status pending, also when the
\* worker has moved the row on.
C25_RespondsPending ==
    /\ [](\A c \in Clients :
             /\ ppc[c] = "started" => ENABLED PostRender(c)
             /\ post_response[c].status = 201 =>
                   /\ post_response[c].data.id = output[c].id
                   /\ post_response[c].data.status = "pending"
                   /\ post_response[c].data.flow = FlowStart[output[c].id].flow)
    /\ [][\A c \in Clients :
             ppc[c] = "started" /\ ppc'[c] = "done" =>
                 /\ post_response'[c].status = 201
                 /\ post_response'[c].data =
                       [FlowStartRead(DB, output[c].id, FlowStart[output[c].id].status)
                           EXCEPT !.status = "pending"]]_vars

C25_Witness ==
    /\ post_response["p1"].status = 201
    /\ post_response["p1"].data.status = "pending"
    /\ FlowStart[output["p1"].id].status = "C"
    /\ ppc["p2"] = "started"
    /\ FlowStart[output["p2"].id].status = "S"

\* C30: the start a request saved has the flow, the groups and the contacts
\* validation resolved, the contacts of `contacts` together with those of
\* `urns`; a contact resolved from both is passed to FlowStart.create twice
\* and is on the start, and in the 201 response, once.
C30_AudienceAsResolved ==
    \A c \in Clients :
        output[c].id # 0 =>
            LET row == FlowStart[output[c].id]
                passed == ListPlus(validated[c].contacts, validated[c].urns)
            IN /\ row.flow = validated[c].flow
               /\ row.groups = validated[c].groups
               /\ row.contacts = validated[c].contacts \cup validated[c].urns
               /\ \A k \in validated[c].contacts \cap validated[c].urns :
                     CopiesIn(k, passed) = 2 /\ k \in row.contacts
               /\ Cardinality(row.contacts) = Cardinality(BodyContacts(body[c]))
               /\ post_response[c].status = 201 =>
                     /\ post_response[c].data.contacts = row.contacts
                     /\ post_response[c].data.groups = row.groups
                     /\ post_response[c].data.flow = row.flow

C30_Witness ==
    /\ post_response["p1"].status = 201
    /\ body["p1"].contacts = {OwnContact}
    /\ body["p1"].urns = {"tel:1", "Tel:2"}
    /\ body["p1"].groups = {OwnGroup}
    /\ body["p1"].fields = {"flow", "contacts", "groups", "urns"}
    /\ OwnContact \in validated["p1"].urns
    /\ post_response["p1"].data.contacts = {OwnContact, "n2"}

\* the parameters among ps the list request gives a value for
Given(ps) == {p \in ps : query.params[p] \notin {None, ""}}

MessageFilters == {"contact", "folder", "label", "broadcast"}
RunFilters == {"contact", "flow"}

Rejected ==
    /\ query_result.error # None
    /\ ~query_result.queried
    /\ ~query_result.answered

\* C28: a list request that gives values for more than one exclusive
\* parameter of its endpoint (contact, folder, label, broadcast for messages;
\* contact, flow for runs) is rejected with an InvalidQueryError and no query
\* is made; a messages request is rejected as well unless it gives a value
\* for exactly one of contact, folder, label, broadcast, id, so `id` together
\* with one of the other four is rejected; every other request is served
C28_ExclusiveAndRequired ==
    lpc = "done" =>
        /\ query_result.error # None => Rejected
        /\ query.endpoint = "messages" =>
              /\ Cardinality(Given(MessageFilters)) > 1 =>
                    /\ Rejected
                    /\ query_result.error =
                          "You may only specify one of the contact, folder, label, broadcast parameters"
              /\ ("id" \in Given({"id"}) /\ Given(MessageFilters) # {}) => Rejected
              /\ Rejected <=> Cardinality(Given(MessageFilters \cup {"id"})) # 1
        /\ query.endpoint = "runs" =>
              /\ Rejected <=> Cardinality(Given(RunFilters)) > 1
              /\ Rejected => query_result.error =
                    "You may only specify one of the contact, flow parameters"
        /\ query.endpoint = "flow_starts" => ~Rejected
        /\ ~Rejected => query_result.queried = (query.format # None)

\* a messages request by id and contact, with a format, was rejected for
\* the required parameters
C28_Witness ==
    /\ lpc = "done"
    /\ query.endpoint = "messages"
    /\ query.format = "json"
    /\ Given(ParamNames) = {"id", "contact"}
    /\ query_result.error =
          "You must specify one of the contact, folder, label, broadcast, id parameters"
    /\ ~query_result.queried

\* the ids of the subscribers that are active
ActiveSubscribers == {i \in DOMAIN ResthookSubscriber : ResthookSubscriber[i].is_active}

SameSubscription(i, j) ==
    /\ ResthookSubscriber[i].resthook = ResthookSubscriber[j].resthook
    /\ ResthookSubscriber[i].target_url = ResthookSubscriber[j].target_url

\* C26: under every interleaving of the subscribe and delete requests no two
\* active subscribers share their resthook and target_url; a POST for a
\* combination that is actively subscribed is rejected with "URL is already
\* subscribed to this event."
C26_NoDuplicateActive ==
    \A i, j \in ActiveSubscribers : SameSubscription(i, j) => i = j

\* the subscribers of the resthooks of the caller's organization
OwnSubscribers ==
    {i \in DOMAIN ResthookSubscriber :
        Resthook[ResthookSubscriber[i].resthook].org = Org1}

Released(i) ==
    /\ DOMAIN ResthookSubscriber' = DOMAIN ResthookSubscriber
    /\ ResthookSubscriber'[i] = [ResthookSubscriber[i] EXCEPT !.is_active = FALSE]
    /\ \A j \in DOMAIN ResthookSubscriber \ {i} :
          ResthookSubscriber'[j] = ResthookSubscriber[j]

NotAnObject == {<<"non_field_errors", "Request body should be a single JSON object">>}

\* the clients that sent such a body to the flow starts, to the subscribers
ListStarters == {c \in Clients : ppc[c] # "none" /\ ~body[c].is_dict}
ListSubscribing == {c \in Clients : hpc[c] # "none" /\ ~hbody[c].is_dict}

\* C29: a body that is no single JSON object, sent to the flow starts or to
\* the resthook subscribers, is answered 400 with the one entry
\* non_field_errors "Request body should be a single JSON object"; the
\* request creates no contact, no FlowStart and no subscriber and calls no
\* async_start
C29_NonObjectRejected ==
    /\ [](/\ \A c \in ListStarters :
                ppc[c] # "idle" =>
                   /\ ppc[c] = "done"
                   /\ post_response[c] =
                         [status |-> 400, errors |-> NotAnObject, data |-> NoData]
          /\ \A c \in ListSubscribing :
                hpc[c] # "idle" =>
                   /\ hpc[c] = "done"
                   /\ hook_response[c] =
                         [status |-> 400, errors |-> NotAnObject, id |-> 0])
    /\ [][/\ \A c \in ListStarters :
                Post(c) => UNCHANGED <<store, async_calls, queue, hook_vars>>
          /\ \A c \in ListSubscribing :
                HookPost(c) => UNCHANGED <<Resthook, ResthookSubscriber, store,
                                           async_calls, queue>>
         ]_vars

\* both write endpoints have answered a list that holds a well-formed object
C29_Witness ==
    /\ ListStarters = {"p1"}
    /\ body["p1"].fields # {}
    /\ post_response["p1"].status = 400
    /\ ListSubscribing = {"p2"}
    /\ hbody["p2"].fields # {}
    /\ hook_response["p2"].status = 400

====
